---- MODULE Spec2Model ----
(***************************************************************************)
(* Model of the Meteostat weather parser: the polling loop of main.py      *)
(* (run_parser and the __main__ loop) and the two database operations of   *)
(* db_writer.py (get_last_timestamp and write_data).                       *)
(*                                                                         *)
(* Time is counted in minutes; minute 0 is 2024-01-01 00:00 on the naive   *)
(* wall clock the code uses (datetime.now(), the table's time column and   *)
(* the DataFrame index are all naive datetimes).                           *)
(***************************************************************************)
EXTENDS Integers, Sequences, FiniteSets, TLC

\* ------------------------------------------------------------------------
\* Program constants
\* ------------------------------------------------------------------------
\* timedelta(hours=1), in minutes
Hour == 60

\* timedelta(days=1), in minutes
Day == 24 * Hour

\* config.py: DAYS_BACK = int(os.getenv("DAYS_BACK", 30))
DAYS_BACK == 30

\* config.py: DELAY_MINUTES = int(os.getenv("DELAY_MINUTES", 65))
DELAY_MINUTES == 65

\* ------------------------------------------------------------------------
\* Bounds of the model
\* ------------------------------------------------------------------------
\* number of sleeps after which the clock stops advancing
MaxSleeps == 3

\* rows per INSERT statement issued by execute_values (library default 100)
PageSize == 2

\* rows in the table when the service starts
MaxInitRows == 1

\* calls of write_data with one DataFrame
MaxCalls == 2

\* writes of another writer on the table
MaxExternal == 1

\* driver processes of the model; the service runs one of them
Procs == {1, 2}

\* clock reading at the first cycle: 2024-01-01 23:05
NowStart == 23 * Hour + 5

MaxNow == NowStart + MaxSleeps * DELAY_MINUTES

\* an hour that is more than DAYS_BACK days before every clock reading
OldHour == 23 * Hour - 31 * Day

\* hours for which the provider may have a row
DataHours == {OldHour + Hour, 23 * Hour, 24 * Hour}

\* hours of the rows that may be in the table when the service starts
StoreHours == {OldHour, 22 * Hour, 23 * Hour}

\* temperature values
Temps == {"t1", "t2"}

\* NaN in the DataFrame, NULL in the table
NULL == "NaN"

\* the provider has no row for the hour
ABSENT == "absent"

\* exception classes raised by the calls of a cycle
ExcKinds == {"psycopg2.Error", "Exception"}

\* Python's None
None == {}

Some(x) == {x}

Val(opt) == CHOOSE x \in opt : TRUE

VARIABLES now, store, provider, drv, harness

vars == <<now, store, provider, drv, harness>>

\* ------------------------------------------------------------------------
\* Helpers
\* ------------------------------------------------------------------------
Range(s) == {s[i] : i \in DOMAIN s}

Times(table) == {table[i].time : i \in DOMAIN table}

SetMax(S) == CHOOSE x \in S : \A y \in S : y <= x

SetMin(S) == CHOOSE x \in S : \A y \in S : x <= y

RECURSIVE SortedSeq(_)
SortedSeq(S) ==
    IF S = {} THEN <<>>
    ELSE LET m == SetMin(S) IN <<m>> \o SortedSeq(S \ {m})

\* ------------------------------------------------------------------------
\* config.py
\* ------------------------------------------------------------------------
\* what an environment variable holds: it is not set, it is the empty
\* string, a text that is no number, a text float() parses but int() does
\* not, or a text int() and float() parse
EnvKinds == {"unset", "empty", "text", "float", "int"}

\* REQUIRED_VARS without the table name
REQUIRED_VARS_NoTable ==
    {"LAT", "LON", "POSTGRES_HOST", "POSTGRES_PORT", "POSTGRES_DB",
     "POSTGRES_USER", "POSTGRES_PASSWORD"}

REQUIRED_VARS ==
    {"LAT", "LON", "POSTGRES_HOST", "POSTGRES_PORT", "POSTGRES_DB",
     "POSTGRES_USER", "POSTGRES_PASSWORD", "POSTGRES_TABLE"}

\* the variables config.py reads
EnvVars == REQUIRED_VARS \cup {"POSTGRES_TABLE", "LOCATION_NAME",
                               "DAYS_BACK", "DELAY_MINUTES"}

\* os.getenv(var, default)
GetEnv(env, var, default) == IF env[var] = "unset" THEN default ELSE env[var]

\* [var for var in REQUIRED_VARS if not os.getenv(var)]
MissingVars(env) ==
    {var \in REQUIRED_VARS : GetEnv(env, var, "unset") \in {"unset", "empty"}}

\* float(x) returns; it raises ValueError or, for None, TypeError otherwise
FloatParses(x) == x \in {"float", "int"}

\* int(x) returns; it raises ValueError or, for None, TypeError otherwise
IntParses(x) == x = "int"

\* the try block of config.py ends without ValueError or TypeError
SettingsParse(env) ==
    /\ FloatParses(GetEnv(env, "LAT", "unset"))
    /\ FloatParses(GetEnv(env, "LON", "unset"))
    /\ IntParses(GetEnv(env, "DAYS_BACK", "int"))
    /\ IntParses(GetEnv(env, "DELAY_MINUTES", "int"))
    /\ IntParses(GetEnv(env, "POSTGRES_PORT", "unset"))

\* the module config is imported: sys.exit on a missing variable or on a
\* conversion error, the settings otherwise
ConfigLoads(env) == MissingVars(env) = {} /\ SettingsParse(env)

\* an environment with every setting in place and the defaults for
\* DAYS_BACK and DELAY_MINUTES
GoodEnv ==
    [var \in EnvVars |->
        CASE var \in {"LAT", "LON"} -> "float"
          [] var = "POSTGRES_PORT" -> "int"
          [] var \in {"DAYS_BACK", "DELAY_MINUTES"} -> "unset"
          [] OTHER -> "text"]

\* ------------------------------------------------------------------------
\* db_writer.py
\* ------------------------------------------------------------------------
\* SELECT MIN(time) in place of MAX(time)
MaxTimeQuery_Min(table) ==
    IF Len(table) = 0 THEN None ELSE Some(SetMin(Times(table)))

\* SELECT MAX(time) FROM table; "if result and result[0]" else None
MaxTimeQuery(table) ==
    IF Len(table) = 0 THEN None ELSE Some(SetMax(Times(table)))

\* write_data without the dropna: every fetched row is written
DropNa_KeepAll(df) == df

\* df.dropna(subset=['temp'])
DropNa(df) == SelectSeq(df, LAMBDA r : r.temp # NULL)

\* the list of (index.to_pydatetime(), row['temp']) tuples
DataToInsert(df) ==
    LET kept == DropNa(df)
    IN  [i \in DOMAIN kept |->
            [time |-> kept[i].time, temperature |-> kept[i].temp]]

\* a plain INSERT on a table without the conflict clause
UpsertRow_InsertOnly(table, r) == Append(table, r)

\* INSERT ... ON CONFLICT (time) DO NOTHING
UpsertRow_DoNothing(table, r) ==
    IF r.time \in Times(table) THEN table ELSE Append(table, r)

\* INSERT ... ON CONFLICT (time) DO UPDATE SET temperature = EXCLUDED.temperature
\* for one row of VALUES
UpsertRow(table, r) ==
    IF r.time \in Times(table)
    THEN [i \in DOMAIN table |->
            IF table[i].time = r.time
            THEN [table[i] EXCEPT !.temperature = r.temperature]
            ELSE table[i]]
    ELSE Append(table, r)

\* the INSERT statements of execute_values applied to a table, row by row
RECURSIVE ExecuteValues(_, _)
ExecuteValues(table, rows) ==
    IF Len(rows) = 0 THEN table
    ELSE ExecuteValues(UpsertRow(table, Head(rows)), Tail(rows))

\* the next page of rows execute_values sends in one statement
NextPage(rows, sent) ==
    SubSeq(rows, sent + 1,
           IF sent + PageSize <= Len(rows) THEN sent + PageSize ELSE Len(rows))

\* a connection in autocommit mode: each statement is committed at once
CommittedAfterStatement_Autocommit(table, page) ==
    ExecuteValues(table, page)

\* committed table after a statement ran inside the open transaction:
\* psycopg2 connections are not in autocommit mode, nothing is visible
\* before conn.commit()
CommittedAfterStatement(table, page) == table

\* a commit that leaves only the rows of the transaction in the table
CommittedAfterCommit_Replace(table, txn) == txn

\* committed table after conn.commit() of the statements in txn
CommittedAfterCommit(table, txn) == ExecuteValues(table, txn)

\* "except psycopg2.Error" of get_last_timestamp
GetLastTimestampCatches(exc) == exc = "psycopg2.Error"

\* "except psycopg2.Error" of write_data
WriteDataCatches(exc) == exc = "psycopg2.Error"

\* ------------------------------------------------------------------------
\* main.py
\* ------------------------------------------------------------------------
\* Hourly(point, start, end).fetch(): the provider's rows of the window,
\* indexed by time in ascending order
HourlyFetch(prov, start, end) ==
    LET hs == SortedSeq({h \in DataHours :
                           start <= h /\ h <= end /\ prov[h] # ABSENT})
    IN  [i \in DOMAIN hs |-> [time |-> hs[i], temp |-> prov[hs[i]]]]

\* a lookback counted in hours instead of days
\* start_date without the hour added to the last timestamp
StartDate_SameHour(last_timestamp, clock) ==
    IF last_timestamp # None
    THEN Val(last_timestamp)
    ELSE clock - DAYS_BACK * Day

StartDate_HoursBack(last_timestamp, clock) ==
    IF last_timestamp # None
    THEN Val(last_timestamp) + Hour
    ELSE clock - DAYS_BACK * Hour

\* start_date of run_parser
StartDate(last_timestamp, clock) ==
    IF last_timestamp # None
    THEN Val(last_timestamp) + Hour
    ELSE clock - DAYS_BACK * Day

\* run_parser without the "if not df.empty" check
DfEmpty_Never(df) == FALSE

\* df.empty
DfEmpty(df) == Len(df) = 0

\* run_parser without the "already current" check
AlreadyCurrent_Never(start, end) == FALSE

\* "if start_date >= end_date": the data is already current
AlreadyCurrent(start, end) == start >= end

\* "except Exception" of the __main__ loop
MainCatches(exc) == exc \in ExcKinds

\* "except Exception" of run_parser
RunParserCatches(exc) == exc \in ExcKinds

\* a handler of the loop that goes on to the next run_parser() call without
\* the sleep ("continue" in the except block)
AfterRunParserException_Continue(exc) == [pc |-> "read", ev |-> "critical"]

\* an exception leaves run_parser: the loop logs it and goes on to the sleep
AfterRunParserException(exc) ==
    IF MainCatches(exc)
    THEN [pc |-> "sleep", ev |-> "critical"]
    ELSE [pc |-> "terminated", ev |-> "traceback"]

\* a handler that logs the error and exits the process
AfterTryException_Exit(exc) == [pc |-> "terminated", ev |-> "fetch_error"]

\* an exception is raised inside the try block of run_parser
AfterTryException(exc) ==
    IF RunParserCatches(exc)
    THEN [pc |-> "sleep", ev |-> "fetch_error"]
    ELSE AfterRunParserException(exc)

\* the locals of run_parser when a cycle starts
NewCycle(table) ==
    [pc |-> "read", last_timestamp |-> None, start_date |-> None,
     end_date |-> None, df |-> <<>>, data_to_insert |-> <<>>,
     txn |-> <<>>, log |-> <<>>, before |-> table, failed_start |-> None,
     environ |-> GoodEnv, stored_max |-> None]

\* a driver process that is not started
NotStarted(table) == [NewCycle(table) EXCEPT !.pc = "off"]

Log(d, ev) == Append(d.log, ev)

\* the cycle logged an error of the provider call or of the write
CycleFailed(d) ==
    "fetch_error" \in Range(d.log) \/ "write_error" \in Range(d.log)

\* ------------------------------------------------------------------------
\* Initial states
\* ------------------------------------------------------------------------
\* the table holding the rows of f, a function from times to temperatures
TableOf(f) ==
    LET hs == SortedSeq(DOMAIN f)
    IN  [i \in DOMAIN hs |-> [time |-> hs[i], temperature |-> f[hs[i]]]]

\* tables the service may find when it starts: the unique constraint on
\* time holds, every temperature was written by an earlier run
InitTables ==
    UNION {{TableOf(f) : f \in [S -> Temps]} :
             S \in {T \in SUBSET StoreHours : Cardinality(T) <= MaxInitRows}}

\* what the provider has for each hour
ProviderData == [DataHours -> Temps \cup {NULL, ABSENT}]

Init ==
    /\ now = NowStart
    /\ store \in InitTables
    /\ provider \in ProviderData
    /\ drv = [p \in Procs |->
                IF p = 1 THEN NewCycle(store) ELSE NotStarted(store)]
    /\ harness = <<>>

\* ------------------------------------------------------------------------
\* One cycle: run_parser
\* ------------------------------------------------------------------------
\* get_last_timestamp returns the result of the query
GetLastTimestamp(p) ==
    LET d == drv[p]
        result == MaxTimeQuery(store)
    IN  /\ d.pc = "read"
        /\ drv' = [drv EXCEPT ![p] =
                     [d EXCEPT !.pc = "window",
                               !.last_timestamp = result,
                               !.log = Log(d, IF result # None
                                              THEN "last_found"
                                              ELSE "db_empty")]]
        /\ UNCHANGED <<now, store, provider, harness>>

\* connecting or querying raises inside get_last_timestamp
GetLastTimestampRaises(p, exc) ==
    LET d == drv[p]
        out == AfterRunParserException(exc)
    IN  /\ d.pc = "read"
        /\ drv' = [drv EXCEPT ![p] =
                     IF GetLastTimestampCatches(exc)
                     THEN [d EXCEPT !.pc = "window",
                                    !.last_timestamp = None,
                                    !.log = Log(d, "read_error")]
                     ELSE [d EXCEPT !.pc = out.pc,
                                    !.log = Log(d, out.ev)]]
        /\ UNCHANGED <<now, store, provider, harness>>

\* start_date, end_date and the "already current" check
ComputeWindow(p) ==
    LET d == drv[p]
        start == StartDate(d.last_timestamp, now)
        end == now
    IN  /\ d.pc = "window"
        /\ drv' = [drv EXCEPT ![p] =
                     [d EXCEPT !.start_date = Some(start),
                               !.end_date = Some(end),
                               !.pc = IF AlreadyCurrent(start, end)
                                      THEN "sleep" ELSE "fetch",
                               !.log = Log(d, IF AlreadyCurrent(start, end)
                                              THEN "up_to_date"
                                              ELSE "requesting")]]
        /\ UNCHANGED <<now, store, provider, harness>>

\* Hourly(point, start_date, end_date).fetch() returns a DataFrame
Fetch(p) ==
    LET d == drv[p]
        df == HourlyFetch(provider, Val(d.start_date), Val(d.end_date))
    IN  /\ d.pc = "fetch"
        /\ drv' = [drv EXCEPT ![p] =
                     [d EXCEPT !.df = df,
                               !.pc = IF DfEmpty(df) THEN "sleep"
                                      ELSE "write",
                               !.log = Log(d, IF DfEmpty(df)
                                              THEN "no_new_data"
                                              ELSE "received")]]
        /\ UNCHANGED <<now, store, provider, harness>>

\* the provider call raises
FetchRaises(p, exc) ==
    LET d == drv[p]
        out == AfterTryException(exc)
    IN  /\ d.pc = "fetch"
        /\ drv' = [drv EXCEPT ![p] =
                     [d EXCEPT !.pc = out.pc, !.log = Log(d, out.ev)]]
        /\ UNCHANGED <<now, store, provider, harness>>

\* write_data: the rows to insert, and the return when none is left
PrepareData(p) ==
    LET d == drv[p]
        rows == DataToInsert(d.df)
    IN  /\ d.pc = "write"
        /\ drv' = [drv EXCEPT ![p] =
                     IF Len(rows) = 0
                     THEN [d EXCEPT !.data_to_insert = rows,
                                    !.pc = "sleep",
                                    !.log = Log(d, "no_valid_data")]
                     ELSE [d EXCEPT !.data_to_insert = rows,
                                    !.pc = "connect"]]
        /\ UNCHANGED <<now, store, provider, harness>>

\* write_data: psycopg2.connect opens a connection and its transaction
Connect(p) ==
    LET d == drv[p]
    IN  /\ d.pc = "connect"
        /\ drv' = [drv EXCEPT ![p] = [d EXCEPT !.pc = "execute",
                                               !.txn = <<>>]]
        /\ UNCHANGED <<now, store, provider, harness>>

\* a row of the page is locked by the open transaction of another process:
\* the INSERT waits until that transaction commits or rolls back
WaitsForLock(p, page) ==
    \E q \in Procs \ {p} :
        /\ drv[q].pc \in {"execute", "commit"}
        /\ Times(drv[q].txn) \cap Times(page) # {}

\* write_data: execute_values sends one page of rows in one statement
ExecutePage(p) ==
    LET d == drv[p]
        page == NextPage(d.data_to_insert, Len(d.txn))
        txn == d.txn \o page
    IN  /\ d.pc = "execute"
        /\ ~WaitsForLock(p, page)
        /\ store' = CommittedAfterStatement(store, page)
        /\ drv' = [drv EXCEPT ![p] =
                     [d EXCEPT !.txn = txn,
                               !.pc = IF Len(txn) = Len(d.data_to_insert)
                                      THEN "commit" ELSE "execute"]]
        /\ UNCHANGED <<now, provider, harness>>

\* write_data: conn.commit()
Commit(p) ==
    LET d == drv[p]
    IN  /\ d.pc = "commit"
        /\ store' = CommittedAfterCommit(store, d.txn)
        /\ drv' = [drv EXCEPT ![p] = [d EXCEPT !.pc = "sleep",
                                               !.txn = <<>>,
                                               !.log = Log(d, "written")]]
        /\ UNCHANGED <<now, provider, harness>>

\* write_data: connect, a statement or the commit raises; leaving the
\* "with conn" block by an exception rolls the transaction back
WriteDataRaises(p, exc) ==
    LET d == drv[p]
        out == IF WriteDataCatches(exc)
               THEN [pc |-> "sleep", ev |-> "write_error"]
               ELSE AfterTryException(exc)
    IN  /\ d.pc \in {"connect", "execute", "commit"}
        /\ drv' = [drv EXCEPT ![p] = [d EXCEPT !.pc = out.pc,
                                               !.txn = <<>>,
                                               !.log = Log(d, out.ev)]]
        /\ UNCHANGED <<now, store, provider, harness>>

\* ------------------------------------------------------------------------
\* The __main__ loop
\* ------------------------------------------------------------------------
\* the clock after time.sleep(DELAY_MINUTES * 60); it stops at MaxNow
ClockAfterSleep(clock) ==
    IF clock + DELAY_MINUTES <= MaxNow THEN clock + DELAY_MINUTES ELSE clock

\* time.sleep(DELAY_MINUTES * 60), then the next run_parser() call
Sleep(p) ==
    /\ drv[p].pc = "sleep"
    /\ now' = ClockAfterSleep(now)
    /\ drv' = [drv EXCEPT ![p] =
                 [NewCycle(store) EXCEPT
                    !.failed_start = IF CycleFailed(drv[p])
                                     THEN drv[p].start_date ELSE None,
                    !.environ = drv[p].environ,
                    !.stored_max = IF "written" \in Range(drv[p].log)
                                   THEN Some(SetMax(Times(
                                            drv[p].data_to_insert)))
                                   ELSE None]]
    /\ UNCHANGED <<store, provider, harness>>

\* one step of run_parser in driver process p
CycleStep(p) ==
    \/ GetLastTimestamp(p)
    \/ \E exc \in ExcKinds : GetLastTimestampRaises(p, exc)
    \/ ComputeWindow(p)
    \/ Fetch(p)
    \/ \E exc \in ExcKinds : FetchRaises(p, exc)
    \/ PrepareData(p)
    \/ Connect(p)
    \/ ExecutePage(p)
    \/ Commit(p)
    \/ \E exc \in ExcKinds : WriteDataRaises(p, exc)

\* one step of driver process p
Step(p) == CycleStep(p) \/ Sleep(p)

Next == \E p \in Procs : Step(p)

Spec == Init /\ [][Next]_vars

\* the initial states with a provider that has a temperature or no row
InitFair == Init /\ \A h \in DataHours : provider[h] \in {"t1", ABSENT}

\* the interpreter always runs the next statement of a started process
FairSpec == InitFair /\ [][Next]_vars /\ \A p \in Procs : WF_vars(Step(p))

\* ------------------------------------------------------------------------
\* write_data applied repeatedly to one DataFrame
\* ------------------------------------------------------------------------
\* every DataFrame the provider can return, on every initial table
InitUpsert ==
    /\ now = NowStart
    /\ store \in InitTables
    /\ provider \in ProviderData
    /\ drv = [p \in Procs |->
                IF p = 1
                THEN [NewCycle(store) EXCEPT
                        !.pc = "write",
                        !.df = HourlyFetch(provider, OldHour, MaxNow)]
                ELSE NotStarted(store)]
    /\ harness = <<>>

\* write_data returned: record the table and the log of the call, and call
\* write_data again with the same DataFrame
WriteDataAgain(p) ==
    LET d == drv[p]
        calls == Append(harness, [table |-> store, log |-> d.log])
    IN  /\ d.pc = "sleep"
        /\ Len(harness) < MaxCalls
        /\ harness' = calls
        /\ drv' = [drv EXCEPT ![p] =
                     [d EXCEPT !.pc = IF Len(calls) < MaxCalls
                                      THEN "write" ELSE "done",
                               !.data_to_insert = <<>>,
                               !.txn = <<>>,
                               !.log = <<>>]]
        /\ UNCHANGED <<now, store, provider>>

NextUpsert ==
    \E p \in Procs :
        \/ PrepareData(p)
        \/ Connect(p)
        \/ ExecutePage(p)
        \/ Commit(p)
        \/ \E exc \in ExcKinds : WriteDataRaises(p, exc)
        \/ WriteDataAgain(p)

SpecUpsert == InitUpsert /\ [][NextUpsert]_vars

\* ------------------------------------------------------------------------
\* Two instances of the service on one table
\* ------------------------------------------------------------------------
\* clock readings at which the two instances run their cycle
ConcurrentClocks == {NowStart, NowStart + DELAY_MINUTES}

\* both instances are at the start of a cycle, on the same provider data
InitConcurrent ==
    /\ now \in ConcurrentClocks
    /\ store \in InitTables
    /\ provider \in [DataHours -> {"t1", NULL, ABSENT}]
    /\ drv = [p \in Procs |-> NewCycle(store)]
    /\ harness = <<>>

\* each instance runs one cycle, in any interleaving of their steps
NextConcurrent == \E p \in Procs : CycleStep(p)

SpecConcurrent == InitConcurrent /\ [][NextConcurrent]_vars

\* ------------------------------------------------------------------------
\* Start of the process: main.py imports config
\* ------------------------------------------------------------------------
\* the environments that differ from GoodEnv in at most two variables
Environments ==
    {[GoodEnv EXCEPT ![v] = k, ![w] = l] :
        v \in EnvVars, w \in EnvVars, k \in EnvKinds, l \in EnvKinds}

\* the process is started in some environment, before the import of config
InitConfig ==
    /\ now = NowStart
    /\ store \in InitTables
    /\ provider = [h \in DataHours |-> "t1"]
    /\ \E env \in Environments :
         drv = [p \in Procs |->
                  IF p = 1
                  THEN [NewCycle(store) EXCEPT !.pc = "import",
                                               !.environ = env]
                  ELSE NotStarted(store)]
    /\ harness = <<>>

\* "from config import ..." runs config.py
LoadConfig(p) ==
    LET d == drv[p]
    IN  /\ d.pc = "import"
        /\ drv' = [drv EXCEPT ![p] =
                     IF ConfigLoads(d.environ)
                     THEN [d EXCEPT !.pc = "read"]
                     ELSE [d EXCEPT !.pc = "exited"]]
        /\ UNCHANGED <<now, store, provider, harness>>

NextConfig == (\E p \in Procs : LoadConfig(p)) \/ Next

SpecConfig == InitConfig /\ [][NextConfig]_vars

\* ------------------------------------------------------------------------
\* Another writer on the table between two cycles
\* ------------------------------------------------------------------------
\* the rows another writer may insert
ExternalRows ==
    {[time |-> t, temperature |-> v] : t \in StoreHours \cup DataHours,
                                       v \in Temps}

\* while the driver sleeps, another writer inserts a row at a new time or
\* deletes a row (a concurrent writer or a manual correction)
ExternalWrite ==
    /\ \A p \in Procs : drv[p].pc \in {"sleep", "off"}
    /\ Len(harness) < MaxExternal
    /\ \/ \E r \in ExternalRows :
            /\ r.time \notin Times(store)
            /\ store' = Append(store, r)
            /\ harness' = Append(harness, [op |-> "insert", row |-> r])
       \/ \E i \in DOMAIN store :
            /\ store' = SubSeq(store, 1, i - 1)
                          \o SubSeq(store, i + 1, Len(store))
            /\ harness' = Append(harness, [op |-> "delete", row |-> store[i]])
    /\ UNCHANGED <<now, provider, drv>>

NextExternal == Next \/ ExternalWrite

SpecExternal == InitFair /\ [][NextExternal]_vars

\* ------------------------------------------------------------------------
\* Observations on a cycle
\* ------------------------------------------------------------------------
\* the driver processes that were started
Running == {p \in Procs : drv[p].pc # "off"}

Logged(p, ev) == ev \in Range(drv[p].log)

\* the cycle has reached the provider call (the request is logged right
\* before it)
Requested(p) == Logged(p, "requesting")

NoDuplicateTimes(table) == Cardinality(Times(table)) = Len(table)

RowSet(table) == Range(table)

RowsAt(table, t) == {r \in RowSet(table) : r.time = t}

\* the rows of a DataFrame that have a temperature, as table rows
EligibleRows(df) ==
    {[time |-> df[i].time, temperature |-> df[i].temp] :
        i \in {j \in DOMAIN df : df[j].temp # NULL}}

\* the times of the rows of a DataFrame that have no temperature
NullTimes(df) == {df[i].time : i \in {j \in DOMAIN df : df[j].temp = NULL}}

\* ------------------------------------------------------------------------
\* C1  Window start
\* ------------------------------------------------------------------------
\* the zone of the specification's scenario, UTC+3
StoreUtcOffset == 3 * Hour

\* a naive timestamp of the Store's zone expressed in UTC
LocalToUtc(t) == t - StoreUtcOffset

\* C1: whenever the last timestamp T is present and the provider is called,
\* the start passed to it is (T in the Store's zone, plus one hour) in UTC.
C1_WindowStartUtc ==
    \A p \in Running :
        (Requested(p) /\ drv[p].last_timestamp # None)
            => Val(drv[p].start_date)
                 = LocalToUtc(Val(drv[p].last_timestamp) + Hour)

\* ------------------------------------------------------------------------
\* C2  A failed read is not an empty table
\* ------------------------------------------------------------------------
\* C2: in a cycle whose last-timestamp read failed the provider is not
\* called (with the lookback window or any other); the cycle is skipped.
C2_FailedReadSkipsCycle ==
    \A p \in Running : Logged(p, "read_error") => ~Requested(p)

\* ------------------------------------------------------------------------
\* C4  One row per timestamp
\* ------------------------------------------------------------------------
\* C4: in every reachable state the table holds at most one row per
\* timestamp.
C4_OneRowPerTimestamp == NoDuplicateTimes(store)

\* a cycle committed a batch that overlaps rows stored before the cycle
C4_Witness ==
    \E p \in Running :
        /\ Logged(p, "written")
        /\ \E r \in Range(drv[p].data_to_insert) :
               r.time \in Times(drv[p].before)

\* ------------------------------------------------------------------------
\* C5  Null filtering
\* ------------------------------------------------------------------------
\* C5: no step inserts or changes a row at the time of a fetched row whose
\* temperature is absent, and every stored row has a temperature.
C5_NullFiltering ==
    [][/\ \A p \in Running : \A t \in NullTimes(drv[p].df) :
              RowsAt(store', t) = RowsAt(store, t)
       /\ \A r \in RowSet(store') : r.temperature # NULL]_vars

\* a batch with a temperature-less row at a stored time was committed
C5_Witness ==
    \E p \in Running :
        /\ Logged(p, "written")
        /\ NullTimes(drv[p].df) \cap Times(store) # {}

\* ------------------------------------------------------------------------
\* C6  No-op when start >= end
\* ------------------------------------------------------------------------
\* C6: in a cycle whose start is not before its end the provider is not
\* called, nothing is written, and the table is as it was before the cycle.
C6_NoOp ==
    \A p \in Running :
        (drv[p].start_date # None
           /\ Val(drv[p].start_date) >= Val(drv[p].end_date))
            => /\ ~Requested(p)
               /\ drv[p].pc = "sleep"
               /\ drv[p].df = <<>>
               /\ drv[p].data_to_insert = <<>>
               /\ store = drv[p].before

\* a cycle ended with start >= end
C6_Witness ==
    \E p \in Running :
        /\ drv[p].start_date # None
        /\ Val(drv[p].start_date) >= Val(drv[p].end_date)
        /\ drv[p].pc = "sleep"

\* ------------------------------------------------------------------------
\* C8  Atomic batch write
\* ------------------------------------------------------------------------
\* C8: the committed table is the one from before the cycle until write_data
\* commits, and then it holds every eligible row of the batch and, at the
\* other times, the rows from before; no other table is ever visible.
C8_AtomicWrite ==
    \A p \in Running :
        LET d == drv[p]
            batch == EligibleRows(d.df)
            batchTimes == {r.time : r \in batch}
        IN  IF Logged(p, "written")
            THEN /\ RowSet(store)
                      = {r \in RowSet(d.before) : r.time \notin batchTimes}
                          \cup batch
                 /\ NoDuplicateTimes(store)
            ELSE store = d.before

\* the transaction is open with a part of the batch executed
C8_Witness ==
    \E p \in Running :
        /\ drv[p].pc = "execute"
        /\ 0 < Len(drv[p].txn)
        /\ Len(drv[p].txn) < Len(drv[p].data_to_insert)

\* ------------------------------------------------------------------------
\* C10  Empty-store bootstrap
\* ------------------------------------------------------------------------
\* C10: in every cycle whose read found the table empty, start is the
\* clock reading minus DAYS_BACK days.
C10_Bootstrap ==
    \A p \in Running :
        (Logged(p, "db_empty") /\ drv[p].start_date # None)
            => Val(drv[p].start_date) = now - DAYS_BACK * 24 * 60

\* a cycle after the first one found the table empty and computed start
C10_Witness ==
    \E p \in Running :
        /\ Logged(p, "db_empty")
        /\ drv[p].start_date # None
        /\ now > NowStart

\* ------------------------------------------------------------------------
\* C3  Upsert idempotence
\* ------------------------------------------------------------------------
\* the call of write_data ended without an error
CallOk(call) ==
    "written" \in Range(call.log) \/ "no_valid_data" \in Range(call.log)

\* C3: when write_data is applied again to the same DataFrame, the table
\* after the later call is the table after the earlier one: the same rows,
\* each eligible row of the batch with the batch's temperature, one row per
\* timestamp.
C3_UpsertIdempotent ==
    \A i \in DOMAIN harness :
        CallOk(harness[i])
            => /\ NoDuplicateTimes(harness[i].table)
               /\ EligibleRows(drv[1].df) \subseteq RowSet(harness[i].table)
               /\ \A j \in DOMAIN harness :
                      (j > i /\ CallOk(harness[j]))
                          => harness[j].table = harness[i].table

\* write_data committed the same non-empty batch twice, and the first call
\* changed the table
C3_Witness ==
    /\ Len(harness) = 2
    /\ "written" \in Range(harness[1].log)
    /\ "written" \in Range(harness[2].log)
    /\ harness[1].table # drv[1].before
    /\ Times(drv[1].before) \cap {r.time : r \in EligibleRows(drv[1].df)} # {}

\* ------------------------------------------------------------------------
\* C7  Failure isolation
\* ------------------------------------------------------------------------
\* C7: a cycle that logged a failure of the provider call or of the write
\* is at the sleep of the loop, and the next cycle starts afterwards.
C7_FailureIsolation ==
    \A p \in Procs :
        /\ [](CycleFailed(drv[p]) => drv[p].pc = "sleep")
        /\ CycleFailed(drv[p]) ~> (drv[p].pc = "read" /\ drv[p].log = <<>>)

\* a cycle started after a cycle whose provider call or write failed
C7_Witness ==
    \E p \in Running :
        /\ drv[p].pc = "read"
        /\ drv[p].failed_start # None

\* ------------------------------------------------------------------------
\* C9  Retry after a failed cycle
\* ------------------------------------------------------------------------
\* C9: in the cycle after a cycle whose provider call or write failed, the
\* window is recomputed from the table: when the table's last timestamp is
\* T, the window starts no later than T plus one hour, so that every hour
\* after the last stored timestamp is requested again.
C9_RetryFromStore ==
    \A p \in Running :
        (/\ drv[p].failed_start # None
         /\ drv[p].start_date # None
         /\ Len(drv[p].before) > 0)
            => Val(drv[p].start_date) <= SetMax(Times(drv[p].before)) + Hour

\* ------------------------------------------------------------------------
\* C11  Bootstrap result
\* ------------------------------------------------------------------------
\* the times of the rows of a DataFrame
DfTimes(df) == {df[i].time : i \in DOMAIN df}

\* C11: after a cycle that started on an empty table and wrote a DataFrame
\* of n rows, all with a temperature, the table holds exactly those n rows
\* and the last-timestamp query returns the greatest of their times.
C11_BootstrapResult ==
    \A p \in Running :
        (/\ Len(drv[p].before) = 0
         /\ Logged(p, "written")
         /\ NullTimes(drv[p].df) = {})
            => /\ Len(store) = Len(drv[p].df)
               /\ RowSet(store) = EligibleRows(drv[p].df)
               /\ MaxTimeQuery(store) = Some(SetMax(DfTimes(drv[p].df)))

\* a cycle on an empty table wrote two or more rows, all with a temperature
C11_Witness ==
    \E p \in Running :
        /\ Len(drv[p].before) = 0
        /\ Logged(p, "written")
        /\ NullTimes(drv[p].df) = {}
        /\ Len(drv[p].df) >= 2

\* ------------------------------------------------------------------------
\* C12  Concurrent instances on one table
\* ------------------------------------------------------------------------
\* the rows one cycle run alone at the clock reading writes to the table
\* when its read fails or not
CycleBatch(table, clock, readFails) ==
    LET start == StartDate(IF readFails THEN None ELSE MaxTimeQuery(table),
                           clock)
    IN  IF AlreadyCurrent(start, clock) THEN <<>>
        ELSE DataToInsert(HourlyFetch(provider, start, clock))

\* the tables one cycle run alone can leave: unchanged after a failure or
\* a no-op, or with its batch written
CycleOutcomes(table, clock) ==
    {table} \cup {ExecuteValues(table, CycleBatch(table, clock, f)) :
                    f \in BOOLEAN}

\* the tables two cycles run one after the other can leave
SequentialOutcomes(table, clock) ==
    UNION {CycleOutcomes(t, clock) : t \in CycleOutcomes(table, clock)}

\* C12: in every interleaving of the cycles of two instances the table has
\* one row per timestamp, a row written by one instance is never changed by
\* the other, and when both cycles have ended the table holds the rows some
\* sequential execution of the two cycles leaves.
C12_ConcurrentSafe ==
    /\ [](/\ NoDuplicateTimes(store)
          /\ (\A p \in Procs : drv[p].pc = "sleep")
                => RowSet(store)
                     \in {RowSet(t) :
                            t \in SequentialOutcomes(drv[1].before, now)})
    /\ [][\A r \in RowSet(store) :
              r.time \notin Times(drv[1].before) => r \in RowSet(store')]_vars

\* both instances committed batches with a common timestamp
C12_Witness ==
    /\ \A p \in Procs : Logged(p, "written")
    /\ Times(drv[1].data_to_insert) \cap Times(drv[2].data_to_insert) # {}

\* ------------------------------------------------------------------------
\* C13  Sequential scheduling
\* ------------------------------------------------------------------------
\* the positions inside run_parser
CyclePcs == {"read", "window", "fetch", "write", "connect", "execute",
             "commit"}

\* C13: at most one cycle is active; a cycle ends at the sleep of the loop,
\* whether it succeeded or failed, and a cycle begins only from the sleep,
\* after one sleep of DELAY_MINUTES on the clock.
C13_SequentialScheduling ==
    /\ [](Cardinality({p \in Procs : drv[p].pc \in CyclePcs}) <= 1)
    /\ [][\A p \in Procs :
            drv'[p] # drv[p]
              => /\ drv[p].pc \in CyclePcs
                     => drv'[p].pc \in (CyclePcs \ {"read"}) \cup {"sleep"}
                 /\ drv'[p].pc = "read" => drv[p].pc = "sleep"
                 /\ drv[p].pc = "sleep"
                     => /\ drv'[p].pc = "read"
                        /\ \/ now' = now + DELAY_MINUTES
                           \/ now' = now /\ now + DELAY_MINUTES > MaxNow]_vars

\* the third cycle begins, after a cycle that did not fail
C13_Witness ==
    \E p \in Running :
        /\ drv[p].pc = "read"
        /\ drv[p].failed_start = None
        /\ now = NowStart + 2 * DELAY_MINUTES

\* ------------------------------------------------------------------------
\* C14  Empty provider result
\* ------------------------------------------------------------------------
\* the provider call of the cycle returned a DataFrame
FetchReturned(p) == Logged(p, "received") \/ Logged(p, "no_new_data")

\* the events logged when a call of the cycle raised
ErrorEvents == {"read_error", "fetch_error", "write_error", "critical",
                "traceback"}

\* C14: in a cycle whose provider call returned an empty DataFrame,
\* write_data is not called, the table is as it was before the cycle, and
\* the cycle ends at the sleep with no error of the fetch or the write.
C14_EmptyResult ==
    \A p \in Running :
        (FetchReturned(p) /\ Len(drv[p].df) = 0)
            => /\ drv[p].pc = "sleep"
               /\ drv[p].data_to_insert = <<>>
               /\ ~Logged(p, "no_valid_data")
               /\ ~Logged(p, "written")
               /\ \A ev \in ErrorEvents \ {"read_error"} : ~Logged(p, ev)
               /\ store = drv[p].before

\* a cycle on a table with rows got an empty DataFrame from the provider
C14_Witness ==
    \E p \in Running :
        /\ FetchReturned(p)
        /\ Len(drv[p].df) = 0
        /\ Len(store) > 0

\* ------------------------------------------------------------------------
\* C15  The sync state is not cached
\* ------------------------------------------------------------------------
\* the events get_last_timestamp logs
ReadEvents == {"last_found", "db_empty", "read_error"}

\* the start that follows from the table as it is when the cycle begins
StartFromTable(table, clock) ==
    IF Len(table) = 0 THEN clock - DAYS_BACK * Day
    ELSE SetMax(Times(table)) + Hour

\* C15: every cycle reads the last timestamp once, first of all, and its
\* start is the one that follows from the table as it is when the cycle
\* begins, rows added or removed by another writer since the last cycle
\* included.
C15_NotCached ==
    \A p \in Running :
        /\ Cardinality({i \in DOMAIN drv[p].log :
                          drv[p].log[i] \in ReadEvents}) <= 1
        /\ drv[p].start_date # None
            => /\ drv[p].log[1] \in ReadEvents
               /\ Val(drv[p].start_date) = StartFromTable(drv[p].before, now)

\* ------------------------------------------------------------------------
\* C16  Configuration fail-fast
\* ------------------------------------------------------------------------
\* the settings that are required
RequiredSettings ==
    {"LAT", "LON", "POSTGRES_HOST", "POSTGRES_PORT", "POSTGRES_DB",
     "POSTGRES_USER", "POSTGRES_PASSWORD", "POSTGRES_TABLE"}

\* a required setting is missing (not set, or set to nothing)
SettingMissing(env) ==
    \E var \in RequiredSettings : env[var] \in {"unset", "empty"}

\* a numeric setting is given and is not a number of its type
SettingMalformed(env) ==
    \/ \E var \in {"LAT", "LON"} : env[var] \in {"empty", "text"}
    \/ \E var \in {"POSTGRES_PORT", "DAYS_BACK", "DELAY_MINUTES"} :
          env[var] \in {"empty", "text", "float"}

\* C16: with a required setting missing or a numeric setting malformed the
\* process exits at the import of config: it never is inside a cycle, it
\* logs no event of a cycle, and the table stays as it was.
C16_ConfigFailFast ==
    \A p \in Running :
        (SettingMissing(drv[p].environ) \/ SettingMalformed(drv[p].environ))
            => /\ drv[p].pc \in {"import", "exited"}
               /\ drv[p].log = <<>>
               /\ drv[p].df = <<>>
               /\ store = drv[p].before

\* the process exited on a malformed number, no required setting missing
C16_Witness ==
    \E p \in Running :
        /\ drv[p].pc = "exited"
        /\ ~SettingMissing(drv[p].environ)
        /\ SettingMalformed(drv[p].environ)

\* ------------------------------------------------------------------------
\* C17  Write/read timestamp round trip
\* ------------------------------------------------------------------------
\* C17: the cycle before this one stored rows whose greatest timestamp is
\* P, and nothing else wrote to the table: the window start this cycle
\* passes to the provider is P plus one hour.
C17_RoundTrip ==
    \A p \in Running :
        (drv[p].stored_max # None /\ drv[p].start_date # None)
            => Val(drv[p].start_date) = Val(drv[p].stored_max) + Hour

\* ------------------------------------------------------------------------
\* C18  Monotonic progress
\* ------------------------------------------------------------------------
\* C18: no step of the driver, in a failed cycle or not, removes a
\* timestamp from the table, and the greatest stored timestamp never
\* decreases.
C18_MonotonicProgress ==
    [][/\ Times(store) \subseteq Times(store')
       /\ Len(store) <= Len(store')
       /\ Len(store) > 0
            => SetMax(Times(store')) >= SetMax(Times(store))]_vars

\* a cycle that follows a failed one has written to a table that had rows
C18_Witness ==
    \E p \in Running :
        /\ drv[p].failed_start # None
        /\ Logged(p, "written")
        /\ Len(drv[p].before) > 0
        /\ Times(drv[p].before) \subseteq Times(store)
        /\ Times(store) # Times(drv[p].before)

\* ------------------------------------------------------------------------
\* C19  No overwrite of stored history
\* ------------------------------------------------------------------------
\* C19: with a single driver, every row of the table stays in it with its
\* temperature, and a row that comes into the table has a timestamp
\* strictly greater than the greatest timestamp stored before.
C19_NoOverwrite ==
    [][/\ RowSet(store) \subseteq RowSet(store')
       /\ \A r \in RowSet(store') \ RowSet(store) :
            Len(store) > 0 => r.time > SetMax(Times(store))]_vars

\* ------------------------------------------------------------------------
\* C20  Gaps are permanent
\* ------------------------------------------------------------------------
\* the hours at or before m the provider has a row for and the table has not
GapHours(m) ==
    {h \in DataHours : h <= m /\ provider[h] # ABSENT /\ h \notin Times(store)}

\* C20: in a cycle whose read returned a present last timestamp M the
\* window starts strictly after M: no hour at or before M is inside the
\* window, and no row of such an hour comes back from the provider.
C20_GapsPermanent ==
    \A p \in Running :
        (drv[p].last_timestamp # None /\ drv[p].start_date # None)
            => LET m == Val(drv[p].last_timestamp)
               IN  /\ Val(drv[p].start_date) > m
                   /\ \A h \in DataHours :
                        h <= m => ~(Val(drv[p].start_date) <= h
                                    /\ h <= Val(drv[p].end_date))
                   /\ \A h \in DfTimes(drv[p].df) : h > m

\* the provider was called in a cycle that read a present last timestamp
\* while an hour before it, which the provider has a row for, is missing
\* from the table
C20_Witness ==
    \E p \in Running :
        /\ drv[p].last_timestamp # None
        /\ Requested(p)
        /\ drv[p].pc \notin {"window", "fetch"}
        /\ GapHours(Val(drv[p].last_timestamp)) # {}

====
